---- MODULE Spec2Model ----
(***************************************************************************)
(* The result caches of the three route handlers (inflow, bridge, swap)    *)
(* and the time-bucketed aggregation behind them.                          *)
(*                                                                         *)
(* Times are milliseconds, as Date.now() gives them.  A behaviour follows  *)
(* one data source (src, chosen in Init): the three route modules share no *)
(* state.  A GET is two steps, cut at its only await: GetBegin runs the    *)
(* handler up to `await fetchReal...Data()` (or to its return on a cache   *)
(* hit), GetResume runs it from the settled promise to the response.       *)
(* Several GETs may be suspended at the await at once; each keeps the       *)
(* currentTime it read at its entry.                                       *)
(*                                                                         *)
(* The cache (Spec, LiveSpec) treats a producer's result as a token.  What  *)
(* is inside the token, the bucketing and summing of one producer run, is  *)
(* followed by AggSpec: Init draws the run's inputs, one action applies     *)
(* the producer or a fallback generator, and the inflow tracker component  *)
(* takes the records of a window into its `data` state.                    *)
(*                                                                         *)
(* TrackerSpec follows one tracker component (of the data source src): its *)
(* window buttons, and its fetchData calls, cut at their `await fetch(...)`.*)
(* A response body is a token there; `data` holds a tag of the records     *)
(* taken from it (which window, which route, which fetch).                 *)
(***************************************************************************)
EXTENDS Integers, Sequences, FiniteSets, TLC

VARIABLES
  src,            \* the data source this behaviour follows
  clock,          \* Date.now()
  upstream,       \* "flaky": an upstream call may fail; "healthy": it succeeds
  cachedData,     \* module-level `let cachedData`
  lastFetchTime,  \* module-level `let lastFetchTime`
  awaiting,       \* the GETs suspended at their await: [n, currentTime] each
  lastGet,        \* the GET that returned last: its response and how it ran
  invs,           \* history: one record per producer invocation
  stampedBy,      \* history: the invocation whose GET wrote lastFetchTime
  nSmall,         \* number of 1 ms clock steps taken
  nBig,           \* number of CACHE_DURATION clock steps taken
  feed,           \* one producer run's inputs: upstream answers, Date readings
  result,         \* what that run (or a fallback generator) returned
  data,           \* a tracker component's `data` state
  interval,       \* a tracker component's `interval` state (the selected window)
  bridgeType,     \* the bridge tracker's `bridgeType` state
  isLoading,      \* a tracker component's `isLoading` state
  error,          \* a tracker component's `error` state
  inflight,       \* the component's fetchData calls suspended at their fetch
  nFetch,         \* history: number of GETs the component has sent
  nRetry          \* history: number of presses of the Retry button

cacheVars == <<src, clock, upstream, cachedData, lastFetchTime, awaiting,
               lastGet, invs, stampedBy, nSmall, nBig>>

aggVars == <<feed, result, data>>

uiVars == <<interval, bridgeType, isLoading, error, inflight, nFetch, nRetry>>

vars == <<src, clock, upstream, cachedData, lastFetchTime, awaiting, lastGet,
          invs, stampedBy, nSmall, nBig, feed, result, data,
          interval, bridgeType, isLoading, error, inflight, nFetch, nRetry>>

----------------------------------------------------------------------------
(* Bounds of the model. *)

MaxPending == 2
MaxInvocations == 2
MaxSmallTicks == 1
MaxBigTicks == 2
StartTime == 100000000
MaxTransfers == 2
MaxFetches == 3
MaxRetries == 1
RandomLevels == 4

Sources == {"inflow", "bridge", "swap"}

----------------------------------------------------------------------------
(* Program constants and values. *)

CACHE_DURATION_inflow == 15 * 60 * 1000
CACHE_DURATION_bridge == 15 * 60 * 1000
CACHE_DURATION_swap == 6 * 60 * 60 * 1000

CACHE_DURATION(s) ==
  CASE s = "inflow" -> CACHE_DURATION_inflow
    [] s = "bridge" -> CACHE_DURATION_bridge
    [] s = "swap"   -> CACHE_DURATION_swap

\* `null`, in the shape of a data value so that TLC can compare the two.
Null == [kind |-> "null", id |-> 0]

\* What a producer run with number n computes from the upstream data.
RealData(n) == [kind |-> "real", id |-> n]

\* generateMockData() of the run with number n: random, schema-valid records.
generateMockData(n) == [kind |-> "mock", id |-> n]

\* NextResponse.json(body): HTTP 200, the stored value as the body.
JsonOk(body) == [status |-> 200, hasError |-> FALSE, payload |-> body]

\* NextResponse.json({ error: ... }, { status: 500 }): an error and nothing else.
JsonErrorOnly == [status |-> 500, hasError |-> TRUE, payload |-> Null]

\* NextResponse.json({ error, details, mockData }, { status: 500 }).
JsonErrorWithMock(n) ==
  [status |-> 500, hasError |-> TRUE, payload |-> generateMockData(n)]

NoResponse == [status |-> 0, hasError |-> FALSE, payload |-> Null]

----------------------------------------------------------------------------
(* The producers.  `up` is how the upstream fetches went ("ok" | "fail");   *)
(* the result is [threw, value]: the promise rejected, or resolved to value.*)

\* fetchRealInflowData: logs and rethrows.
fetchRealInflowData(up, n) ==
  IF up = "ok" THEN [threw |-> FALSE, value |-> RealData(n)]
               ELSE [threw |-> TRUE, value |-> Null]

\* fetchRealBridgeData: its catch returns generateMockData().
fetchRealBridgeData(up, n) ==
  IF up = "ok" THEN [threw |-> FALSE, value |-> RealData(n)]
               ELSE [threw |-> FALSE, value |-> generateMockData(n)]

\* fetchRealSwapData: no try/catch, a failed fetch rejects.
fetchRealSwapData(up, n) ==
  IF up = "ok" THEN [threw |-> FALSE, value |-> RealData(n)]
               ELSE [threw |-> TRUE, value |-> Null]

Producer(s, up, n) ==
  CASE s = "inflow" -> fetchRealInflowData(up, n)
    [] s = "bridge" -> fetchRealBridgeData(up, n)
    [] s = "swap"   -> fetchRealSwapData(up, n)

\* ShouldRefresh with the comparison off by one: an entry exactly
\* CACHE_DURATION old already counts as expired.
ShouldRefresh_ExpiresEarly(s, cached, last, now) ==
  cached = Null \/ now - last >= CACHE_DURATION(s)

\* ShouldRefresh without the age test: an entry, once stored, is kept for good.
ShouldRefresh_NeverExpires(s, cached, last, now) ==
  cached = Null

\* `!cachedData || currentTime - lastFetchTime > CACHE_DURATION`
ShouldRefresh(s, cached, last, now) ==
  cached = Null \/ now - last > CACHE_DURATION(s)

----------------------------------------------------------------------------
(* What the handler does once the awaited producer has settled: the new     *)
(* cachedData, the new lastFetchTime, whether lastFetchTime was written,    *)
(* and the response.  r is the producer's [threw, value], t the request's   *)
(* currentTime, n the run's number.                                         *)

\* inflow: success stores and stamps; the catch stores generateMockData()
\* and leaves lastFetchTime alone; then the stored value is returned.
ResumeInflow(r, cached, last, t, n) ==
  LET d == IF r.threw THEN generateMockData(n) ELSE r.value
  IN  [data    |-> d,
       last    |-> IF r.threw THEN last ELSE t,
       stamped |-> ~r.threw,
       resp    |-> IF d = Null THEN JsonErrorWithMock(n) ELSE JsonOk(d)]

\* bridge: success stores and stamps; the catch returns the 500 at once.
ResumeBridge(r, cached, last, t, n) ==
  IF r.threw
  THEN [data |-> cached, last |-> last, stamped |-> FALSE, resp |-> JsonErrorOnly]
  ELSE [data |-> r.value, last |-> t, stamped |-> TRUE,
        resp |-> IF r.value = Null THEN JsonErrorOnly ELSE JsonOk(r.value)]

\* swap: success stores and stamps; the catch returns the 500 at once.
ResumeSwap(r, cached, last, t, n) ==
  IF r.threw
  THEN [data |-> cached, last |-> last, stamped |-> FALSE, resp |-> JsonErrorOnly]
  ELSE [data |-> r.value, last |-> t, stamped |-> TRUE, resp |-> JsonOk(r.value)]

Resume(s, r, cached, last, t, n) ==
  CASE s = "inflow" -> ResumeInflow(r, cached, last, t, n)
    [] s = "bridge" -> ResumeBridge(r, cached, last, t, n)
    [] s = "swap"   -> ResumeSwap(r, cached, last, t, n)

----------------------------------------------------------------------------
(* History helpers. *)

InvIds == DOMAIN invs

Pending == {i \in InvIds : invs[i].status = "pending"}

Stored == {i \in InvIds : invs[i].status = "stored"}

----------------------------------------------------------------------------
(* Time-bucketed aggregation: one producer run.                             *)

Solana == "Solana"
Ethereum == "Ethereum"
Avalanche == "Avalanche"

\* Object.entries(timeRanges): the windows in the order the loops visit them.
Ranges == <<"1h", "6h", "12h", "24h">>

RangeSet == {Ranges[k] : k \in 1..Len(Ranges)}

timeRanges ==
  ("1h" :> 60 * 60 * 1000) @@ ("6h" :> 6 * 60 * 60 * 1000)
    @@ ("12h" :> 12 * 60 * 60 * 1000) @@ ("24h" :> 24 * 60 * 60 * 1000)

\* `15 * 60 * 1000`, the width of an interval.
IntervalMs == 15 * 60 * 1000

\* A roundToNearestHour that rounds to the nearer hour, up from the half hour.
roundToNearestHour_HalfUp(date) ==
  LET hours == (date + 30 * 60 * 1000) \div (60 * 60 * 1000)
  IN  hours * (60 * 60 * 1000)

\* roundToNearestHour: setMinutes(0), setSeconds(0), setMilliseconds(0) on a
\* copy of the date (local time at a whole-hour offset from UTC).
roundToNearestHour(date) ==
  LET hours == date \div (60 * 60 * 1000)
  IN  hours * (60 * 60 * 1000)

\* Date.prototype.toISOString: the instant as date and time-of-day fields
\* (the date as a day number).
toISOString(ms) ==
  [day    |-> ms \div 86400000,
   hour   |-> (ms % 86400000) \div 3600000,
   minute |-> (ms % 3600000) \div 60000,
   second |-> (ms % 60000) \div 1000,
   milli  |-> ms % 1000]

\* Number.parseFloat on the amount strings the transfer feed carries.
ParseFloat(str) ==
  CASE str = "5"  -> 5
    [] str = "10" -> 10
    [] str = "0"  -> 0

\* new Date(t.timestamp * 1000): the feed's timestamps are seconds.
TransferTime(t) == t.timestamp * 1000

\* .reduce((sum, t) => sum + Number.parseFloat(t.amount), 0)
RECURSIVE SumAmounts(_)
SumAmounts(ts) ==
  IF ts = << >> THEN 0
  ELSE SumAmounts(SubSeq(ts, 1, Len(ts) - 1)) + ParseFloat(ts[Len(ts)].amount)

\* .filter(t => t.fromChain === chain)
FromChain(ts, chain) ==
  LET Test(t) == t.fromChain = chain IN SelectSeq(ts, Test)

\* fetchBridgeData (inflow): the recent transfers into Avalanche.
fetchBridgeData(transfers) ==
  LET Test(t) == t.toChain = Avalanche IN SelectSeq(transfers, Test)

\* fetchDefiLlamaBridgeData (bridge): the transfers of each route.
fetchDefiLlamaBridgeData(transfers) ==
  LET Sol(t) == t.fromChain = Solana /\ t.toChain = Avalanche
      Eth(t) == t.fromChain = Ethereum /\ t.toChain = Avalanche
  IN  [solAvax |-> SelectSeq(transfers, Sol), ethAvax |-> SelectSeq(transfers, Eth)]

\* `transfers.filter(t => new Date(t.timestamp * 1000) > rangeStart)`
RelevantTransfers(ts, rangeStart) ==
  LET Test(t) == TransferTime(t) > rangeStart IN SelectSeq(ts, Test)

\* `transferTime >= intervalStart && transferTime < intervalTime`
IntervalTransfers(ts, intervalStart, intervalTime) ==
  LET Test(t) == TransferTime(t) >= intervalStart /\ TransferTime(t) < intervalTime
  IN  SelectSeq(ts, Test)

\* The boundaries the loop `for (let i = 0; i < intervals; i++)` gives its
\* intervals: intervalStart and intervalTime of each i, in the loop's order.
Buckets(now, duration) ==
  LET intervals == duration \div IntervalMs
      Bucket(i) ==
        LET intervalTime == now - i * IntervalMs
            intervalStart == intervalTime - IntervalMs
        IN  [intervalStart |-> intervalStart, intervalTime |-> intervalTime]
  IN  [k \in 1..intervals |-> Bucket(k - 1)]

\* The iterations of that loop whose filter lets the transfer t through, t
\* being one of the transfers the window was given.
CountingIntervals(t, now, duration) ==
  LET relevant == RelevantTransfers(<<t>>, now - duration)
      B == Buckets(now, duration)
  IN  {k \in 1..Len(B) :
         IntervalTransfers(relevant, B[k].intervalStart, B[k].intervalTime) # << >>}

\* fetchRealInflowData, the body of its loop over the windows: the data
\* points of one window.
InflowDataPoints(bridgeData, exchangeData, now, duration) ==
  LET rangeStart == now - duration
      relevantBridgeTransfers == RelevantTransfers(bridgeData, rangeStart)
      intervals == duration \div IntervalMs
      Point(i) ==
        LET intervalTime == now - i * IntervalMs
            intervalStart == intervalTime - IntervalMs
            intervalBridgeTransfers ==
              IntervalTransfers(relevantBridgeTransfers, intervalStart, intervalTime)
            solBridgeAmount == SumAmounts(FromChain(intervalBridgeTransfers, Solana))
            ethBridgeAmount == SumAmounts(FromChain(intervalBridgeTransfers, Ethereum))
            exchangeAmount ==
              (exchangeData.binance + exchangeData.coinbase + exchangeData.kraken)
                \div intervals
            totalInflow == exchangeAmount + solBridgeAmount + ethBridgeAmount
        IN  [time |-> toISOString(intervalTime),
             exchangeAmount |-> exchangeAmount,
             totalInflow |-> totalInflow,
             solBridgeAmount |-> solBridgeAmount,
             ethBridgeAmount |-> ethBridgeAmount]
  IN  [k \in 1..intervals |-> Point(k - 1)]

\* fetchRealInflowData, after the three fetches have resolved: `now` is read
\* once, before the loop.
InflowResult(f) ==
  LET now == roundToNearestHour(f.dates["1h"])
      bridgeData == fetchBridgeData(f.transfers)
  IN  [kind |-> "inflow", origin |-> "real",
       windows |-> [r \in RangeSet |->
                      InflowDataPoints(bridgeData, f.exchange, now, timeRanges[r])],
       avaxPrice |-> f.prices.avax]

\* processTransfers, the body of its loop: `now` is read anew for each window.
BridgeDataPoints(transfers, sourcePrice, now, duration) ==
  LET rangeStart == now - duration
      relevantTransfers == RelevantTransfers(transfers, rangeStart)
      intervals == duration \div IntervalMs
      Point(i) ==
        LET intervalTime == now - i * IntervalMs
            intervalStart == intervalTime - IntervalMs
            intervalTransfers ==
              IntervalTransfers(relevantTransfers, intervalStart, intervalTime)
            totalAmount == SumAmounts(intervalTransfers)
            usdValue == totalAmount * sourcePrice
        IN  [time |-> toISOString(intervalTime),
             amount |-> totalAmount,
             usdValue |-> usdValue]
  IN  [k \in 1..intervals |-> Point(k - 1)]

processTransfers(transfers, sourcePrice, dates) ==
  [r \in RangeSet |->
     BridgeDataPoints(transfers, sourcePrice, roundToNearestHour(dates[r]),
                      timeRanges[r])]

\* fetchRealBridgeData, after both fetches have resolved with data.
BridgeResult(f) ==
  LET bridgeData == fetchDefiLlamaBridgeData(f.transfers)
  IN  [kind |-> "bridge", origin |-> "real",
       routes |-> [solAvax |-> processTransfers(bridgeData.solAvax, f.prices.sol, f.dates),
                   ethAvax |-> processTransfers(bridgeData.ethAvax, f.prices.eth, f.dates)]]

\* Math.random(): the k-th draw of the stream with the given seed, as a
\* numerator over RandomLevels.
Random(seed, k) == (seed + k) % RandomLevels

\* Math.floor(Math.random() * n), and Math.random() * n on the same grid.
RandomBelow(seed, k, n) == (Random(seed, k) * n) \div RandomLevels

\* generateDataPoints(4), (24), (48), (96): the length each window is given.
MockCounts == ("1h" :> 4) @@ ("6h" :> 24) @@ ("12h" :> 48) @@ ("24h" :> 96)

\* Number of records the three windows before r hold (the draws they used).
RecordsBefore(r) ==
  CASE r = "1h" -> 0 [] r = "6h" -> 4 [] r = "12h" -> 28 [] r = "24h" -> 76

\* generateMockData of the inflow route: generateDataPoints(count).
ServerMockPoints(count, date, seed, first) ==
  LET now == roundToNearestHour(date)
      Point(i) ==
        LET time == now - i * IntervalMs
            exchangeAmount == RandomBelow(seed, 3 * (first + i), 1000)
            solBridgeAmount == RandomBelow(seed, 3 * (first + i) + 1, 200)
            ethBridgeAmount == RandomBelow(seed, 3 * (first + i) + 2, 300)
            totalInflow == exchangeAmount + solBridgeAmount + ethBridgeAmount
        IN  [time |-> toISOString(time),
             exchangeAmount |-> exchangeAmount,
             totalInflow |-> totalInflow,
             solBridgeAmount |-> solBridgeAmount,
             ethBridgeAmount |-> ethBridgeAmount]
  IN  [k \in 1..count |-> Point(k - 1)]

ServerMockResult(f, seed) ==
  [kind |-> "inflow", origin |-> "mock",
   windows |-> [r \in RangeSet |->
                  ServerMockPoints(MockCounts[r], f.dates[r], seed,
                                   RecordsBefore(r))],
   avaxPrice |-> 20 + RandomBelow(seed, 3 * 172, 10)]

\* generateMockData of the inflow tracker component: generateDataPoints(count);
\* `now` is the unrounded `new Date()`, every field a draw of its own.
ClientMockPoints(count, date, seed, first) ==
  LET Point(i) ==
        [time |-> toISOString(date - i * IntervalMs),
         exchangeAmount |-> RandomBelow(seed, 4 * (first + i), 1000),
         totalInflow |-> RandomBelow(seed, 4 * (first + i) + 1, 2000),
         solBridgeAmount |-> RandomBelow(seed, 4 * (first + i) + 2, 500),
         ethBridgeAmount |-> RandomBelow(seed, 4 * (first + i) + 3, 500)]
  IN  [k \in 1..count |-> Point(k - 1)]

ClientMockResult(f, seed) ==
  [kind |-> "inflow", origin |-> "clientMock",
   windows |-> [r \in RangeSet |->
                  ClientMockPoints(MockCounts[r], f.dates[r], seed,
                                   RecordsBefore(r))],
   avaxPrice |-> 20 + RandomBelow(seed, 4 * 172, 10)]

\* generateMockData of the bridge route: generateDataPoints(count).  `now` is
\* on the hour, so time.setMinutes(i * 15) is now plus i quarters of an hour.
BridgeMockPoints(count, date, seed, first) ==
  LET now == roundToNearestHour(date)
      Point(i) ==
        [time |-> toISOString(now + i * IntervalMs),
         amount |-> RandomBelow(seed, 2 * (first + i), 1000),
         usdValue |-> RandomBelow(seed, 2 * (first + i) + 1, 10000)]
  IN  [k \in 1..count |-> Point(k - 1)]

BridgeMockResult(f, seed) ==
  [kind |-> "bridge", origin |-> "mock",
   routes |->
     [solAvax |-> [r \in RangeSet |->
                     BridgeMockPoints(MockCounts[r], f.dates[r], seed, RecordsBefore(r))],
      ethAvax |-> [r \in RangeSet |->
                     BridgeMockPoints(MockCounts[r], f.dates[r], seed,
                                      172 + RecordsBefore(r))]]]

\* generateSwapData(24) of fetchRealSwapData: hourly points back from
\* Date.now(), 24 of them for each of the four windows.
SwapCount == 24
SwapStepMs == 3600000

generateSwapData(count, date, seed, first, solPrice, avaxPrice) ==
  LET Point(i) ==
        [time |-> toISOString(date - i * SwapStepMs),
         amount |-> (Random(seed, first + i) * 100 * solPrice)
                      \div (RandomLevels * avaxPrice)]
  IN  [k \in 1..count |-> Point(k - 1)]

\* Position of the window among the four generateSwapData calls.
SwapCallIndex(r) ==
  CASE r = "1h" -> 0 [] r = "6h" -> 1 [] r = "12h" -> 2 [] r = "24h" -> 3

SwapResult(f, seed) ==
  [kind |-> "swap", origin |-> "real",
   windows |-> [r \in RangeSet |->
                  generateSwapData(SwapCount, f.dates[r], seed,
                                   SwapCount * SwapCallIndex(r),
                                   f.prices.sol, f.prices.avax)]]

----------------------------------------------------------------------------
(* The inputs of a producer run. *)

\* `null` of the `error` state, and the messages setError is given.
NoError == "null"

NoFeed == [kind |-> "none"]
NoResult == [kind |-> "none"]

\* The top of the hour the model's clock starts in, in seconds.
HourSec == roundToNearestHour(StartTime) \div 1000

Transfer(ts, from, to, amount) ==
  [timestamp |-> ts, fromChain |-> from, toChain |-> to, amount |-> amount]

\* Transfers of https://bridges.llama.fi/transfers/recent the runs draw from:
\* on and off the window and interval boundaries, of every kind of route.
TransferPool ==
  << Transfer(HourSec - 3600, Solana, Avalanche, "10"),
     Transfer(HourSec - 3300, Solana, Avalanche, "10"),
     Transfer(HourSec - 2400, Ethereum, Avalanche, "5"),
     Transfer(HourSec - 900, Ethereum, Avalanche, "5"),
     Transfer(HourSec - 21600, Ethereum, Avalanche, "10"),
     Transfer(HourSec, Solana, Avalanche, "5"),
     Transfer(HourSec - 86401, Solana, Avalanche, "10"),
     Transfer(HourSec - 1200, Solana, "Polygon", "10"),
     Transfer(HourSec - 1500, "Polygon", Avalanche, "5") >>

\* The answers of the transfers endpoint: up to MaxTransfers transfers of the
\* pool, repeats allowed, listed in the pool's order (the producers filter
\* and sum, so the order of the list does not reach their results).
TransferFeeds ==
  UNION { { [j \in 1..n |-> TransferPool[ix[j]]] :
              ix \in {f \in [1..n -> 1..Len(TransferPool)] :
                        \A j \in 1..(n - 1) : f[j] <= f[j + 1]} } :
          n \in 0..MaxTransfers }

\* What `new Date()` reads at the four windows of one run: one instant, two
\* instants of one hour (either side of the half hour), or the hour turning
\* between the first window and the second.
DateReadings ==
  { [r \in RangeSet |-> StartTime],
    [r \in RangeSet |->
       IF r = "1h" THEN roundToNearestHour(StartTime) + 60 * 1000
                   ELSE roundToNearestHour(StartTime) + 46 * 60 * 1000],
    [r \in RangeSet |->
       IF r = "1h" THEN roundToNearestHour(StartTime) + 60 * 60 * 1000 - 1
                   ELSE roundToNearestHour(StartTime) + 60 * 60 * 1000] }

\* What the upstream calls and `new Date()` gave one run.  The exchange
\* figures sum to a multiple of 96, so that the division by the number of
\* intervals is exact in every window.
Feeds ==
  [kind : {"feed"},
   transfers : TransferFeeds,
   dates : DateReadings,
   exchange : {[binance |-> 96, coinbase |-> 192, kraken |-> 0]},
   prices : {[sol |-> 3, eth |-> 7, avax |-> 20]}]

Seeds == 0..(RandomLevels - 1)

----------------------------------------------------------------------------
\* No GET has returned yet.
NoGet == [resp |-> NoResponse, n |-> 0, up |-> "none"]

Init ==
  /\ src \in Sources
  /\ clock = StartTime
  /\ upstream = "flaky"
  /\ cachedData = Null
  /\ lastFetchTime = 0
  /\ awaiting = {}
  /\ lastGet = NoGet
  /\ invs = << >>
  /\ stampedBy = 0
  /\ nSmall = 0
  /\ nBig = 0
  /\ feed = NoFeed
  /\ result = NoResult
  /\ data = << >>
  /\ interval = "1h"
  /\ bridgeType = "sol-avax"
  /\ isLoading = TRUE
  /\ error = NoError
  /\ inflight = {}
  /\ nFetch = 0
  /\ nRetry = 0

\* Time passes: by a millisecond.
TickSmall ==
  /\ nSmall < MaxSmallTicks
  /\ clock' = clock + 1
  /\ nSmall' = nSmall + 1
  /\ UNCHANGED <<src, upstream, cachedData, lastFetchTime, awaiting, lastGet,
                 invs, stampedBy, nBig,
                 feed, result, data, uiVars>>

\* Time passes: by the source's freshness duration.
TickBig ==
  /\ nBig < MaxBigTicks
  /\ clock' = clock + CACHE_DURATION(src)
  /\ nBig' = nBig + 1
  /\ UNCHANGED <<src, upstream, cachedData, lastFetchTime, awaiting, lastGet,
                 invs, stampedBy, nSmall,
                 feed, result, data, uiVars>>

\* The upstream services stop failing, for good.
Recover ==
  /\ upstream = "flaky"
  /\ upstream' = "healthy"
  /\ UNCHANGED <<src, clock, cachedData, lastFetchTime, awaiting, lastGet,
                 invs, stampedBy, nSmall, nBig,
                 feed, result, data, uiVars>>

\* GET on a cache hit: from its entry to its return, no await on the way.
GetHit ==
  /\ ~ShouldRefresh(src, cachedData, lastFetchTime, clock)
  /\ lastGet' = [resp |-> JsonOk(cachedData), n |-> 0, up |-> "none"]
  /\ UNCHANGED <<src, clock, upstream, cachedData, lastFetchTime, awaiting,
                 invs, stampedBy, nSmall, nBig,
                 feed, result, data, uiVars>>

\* GET on a cache miss, from its entry to `await fetchReal...Data()`.
GetBegin ==
  /\ ShouldRefresh(src, cachedData, lastFetchTime, clock)
  /\ Len(invs) < MaxInvocations
  /\ Cardinality(awaiting) < MaxPending
  /\ LET n == Len(invs) + 1
         marked == [i \in InvIds |->
                      IF i \in Pending
                      THEN [invs[i] EXCEPT !.overlapped = TRUE]
                      ELSE invs[i]]
     IN  /\ invs' = Append(marked,
                      [start |-> clock, status |-> "pending",
                       overlapped |-> Pending # {},
                       up |-> "pending", data |-> Null])
         /\ awaiting' = awaiting \cup {[n |-> n, currentTime |-> clock]}
  /\ UNCHANGED <<src, clock, upstream, cachedData, lastFetchTime, lastGet,
                 stampedBy, nSmall, nBig,
                 feed, result, data, uiVars>>

\* GET, from the settled producer promise to its response.
GetResume(g) ==
  /\ g \in awaiting
  /\ \E up \in (IF upstream = "healthy" THEN {"ok"} ELSE {"ok", "fail"}) :
       LET p == Producer(src, up, g.n)
           x == Resume(src, p, cachedData, lastFetchTime, g.currentTime, g.n)
       IN  /\ cachedData' = x.data
           /\ lastFetchTime' = x.last
           /\ stampedBy' = IF x.stamped THEN g.n ELSE stampedBy
           /\ lastGet' = [resp |-> x.resp, n |-> g.n, up |-> up]
           /\ invs' = [invs EXCEPT
                         ![g.n].status = IF x.stamped THEN "stored" ELSE "threw",
                         ![g.n].up = up,
                         ![g.n].data = IF x.stamped THEN x.data ELSE Null]
  /\ awaiting' = awaiting \ {g}
  /\ UNCHANGED <<src, clock, upstream, nSmall, nBig,
                 feed, result, data, uiVars>>

Next ==
  \/ TickSmall
  \/ TickBig
  \/ Recover
  \/ GetHit
  \/ GetBegin
  \/ \E g \in awaiting : GetResume(g)

Spec == Init /\ [][Next]_vars

\* Requests keep arriving, time keeps passing and every pending producer
\* promise settles.
LiveSpec ==
  /\ Spec
  /\ WF_vars(TickBig)
  /\ WF_vars(GetBegin)
  /\ WF_vars(\E g \in awaiting : GetResume(g))

----------------------------------------------------------------------------
(* One producer run and the tracker component behind it. *)

InitAgg ==
  /\ src = "inflow"
  /\ clock = StartTime
  /\ upstream = "flaky"
  /\ cachedData = Null
  /\ lastFetchTime = 0
  /\ awaiting = {}
  /\ lastGet = NoGet
  /\ invs = << >>
  /\ stampedBy = 0
  /\ nSmall = 0
  /\ nBig = 0
  /\ feed \in Feeds
  /\ result = NoResult
  /\ data = << >>
  /\ interval = "1h"
  /\ bridgeType = "sol-avax"
  /\ isLoading = TRUE
  /\ error = NoError
  /\ inflight = {}
  /\ nFetch = 0
  /\ nRetry = 0

\* fetchRealInflowData runs to its return.  The tracker is waiting for the response.
RunInflowProducer ==
  /\ result = NoResult
  /\ data = << >>
  /\ result' = InflowResult(feed)
  /\ UNCHANGED <<feed, data>>
  /\ UNCHANGED cacheVars
  /\ UNCHANGED uiVars

\* fetchRealBridgeData runs to its return.  The tracker is waiting for the response.
RunBridgeProducer ==
  /\ result = NoResult
  /\ data = << >>
  /\ result' = BridgeResult(feed)
  /\ UNCHANGED <<feed, data>>
  /\ UNCHANGED cacheVars
  /\ UNCHANGED uiVars

\* The inflow route's generateMockData() stands in for the producer.  The tracker is waiting for the response.
RunInflowFallback ==
  /\ result = NoResult
  /\ data = << >>
  /\ \E seed \in Seeds : result' = ServerMockResult(feed, seed)
  /\ UNCHANGED <<feed, data>>
  /\ UNCHANGED cacheVars
  /\ UNCHANGED uiVars

\* The bridge route's generateMockData() stands in for the producer
\* (fetchRealBridgeData's catch).
RunBridgeFallback ==
  /\ result = NoResult
  /\ data = << >>
  /\ \E seed \in Seeds : result' = BridgeMockResult(feed, seed)
  /\ UNCHANGED <<feed, data>>
  /\ UNCHANGED cacheVars
  /\ UNCHANGED uiVars

\* fetchRealSwapData runs to its return.
RunSwapProducer ==
  /\ result = NoResult
  /\ data = << >>
  /\ \E seed \in Seeds : result' = SwapResult(feed, seed)
  /\ UNCHANGED <<feed, data>>
  /\ UNCHANGED cacheVars
  /\ UNCHANGED uiVars

\* The inflow tracker's fetchData got the result: setData(result[interval]),
\* setIsLoading(false).
TrackerSetsData ==
  /\ result.kind = "inflow"
  /\ data = << >>
  /\ isLoading
  /\ data' = result.windows[interval]
  /\ isLoading' = FALSE
  /\ UNCHANGED <<feed, result, interval, bridgeType, error, inflight, nFetch, nRetry>>
  /\ UNCHANGED cacheVars

\* The inflow tracker's fetchData threw (no result came back from the route):
\* setError(...), setData(generateMockData()[interval]), setIsLoading(false).
TrackerFallsBack ==
  /\ result = NoResult
  /\ data = << >>
  /\ isLoading
  /\ \E seed \in Seeds : data' = ClientMockResult(feed, seed).windows[interval]
  /\ error' = "Failed to fetch"
  /\ isLoading' = FALSE
  /\ UNCHANGED <<feed, result, interval, bridgeType, inflight, nFetch, nRetry>>
  /\ UNCHANGED cacheVars

NextAgg ==
  \/ RunInflowProducer
  \/ RunBridgeProducer
  \/ RunInflowFallback
  \/ RunBridgeFallback
  \/ RunSwapProducer
  \/ TrackerSetsData
  \/ TrackerFallsBack

AggSpec == InitAgg /\ [][NextAgg]_vars

----------------------------------------------------------------------------
(* One tracker component: its buttons and its fetchData calls. *)

BridgeTypes == {"sol-avax", "eth-avax"}

\* A fetchData call suspended at `await fetch(...)`: the values of `interval`
\* and `bridgeType` its closure holds, and the number of its GET.
FetchData(n, iv, bt) == [id |-> n, interval |-> iv, bridgeType |-> bt]

\* result[interval] (result[bridgeType][interval]) as the call f reads it from
\* its response, and generateMockData()[interval] of the inflow tracker:
\* a tag in place of the records.
RecordsFor(f, origin) ==
  <<[window |-> f.interval, route |-> f.bridgeType, fetch |-> f.id,
     origin |-> origin]>>

\* The component after its first render: the effect has run once, fetchData
\* has called setIsLoading(true), setError(null) and sent its GET.
InitTracker ==
  /\ src \in Sources
  /\ clock = StartTime
  /\ upstream = "flaky"
  /\ cachedData = Null
  /\ lastFetchTime = 0
  /\ awaiting = {}
  /\ lastGet = NoGet
  /\ invs = << >>
  /\ stampedBy = 0
  /\ nSmall = 0
  /\ nBig = 0
  /\ feed = NoFeed
  /\ result = NoResult
  /\ data = << >>
  /\ interval = "1h"
  /\ bridgeType = "sol-avax"
  /\ isLoading = TRUE
  /\ error = NoError
  /\ inflight = {FetchData(1, "1h", "sol-avax")}
  /\ nFetch = 1
  /\ nRetry = 0

\* setInterval(v) and what follows from it.  A value other than the state's
\* is a state change: the component renders again and the effect, which
\* depends on `interval`, runs fetchData anew (setIsLoading(true),
\* setError(null), a GET).  The value the state already has changes nothing:
\* no render, and the effect's dependency is what it was.
SetInterval(v) ==
  IF v # interval
  THEN /\ nFetch < MaxFetches
       /\ interval' = v
       /\ isLoading' = TRUE
       /\ error' = NoError
       /\ nFetch' = nFetch + 1
       /\ inflight' = inflight \cup {FetchData(nFetch + 1, v, bridgeType)}
  ELSE UNCHANGED <<interval, isLoading, error, nFetch, inflight>>

\* onClick={() => setInterval(v)} of a window button other than the selected
\* one.
SelectInterval(v) ==
  /\ v # interval
  /\ SetInterval(v)
  /\ UNCHANGED <<bridgeType, data, feed, result, nRetry>>
  /\ UNCHANGED cacheVars

\* onClick={() => setInterval(interval)} of the inflow tracker's Retry
\* button, which is rendered when isLoading is false and error is set.
Retry ==
  /\ src = "inflow"
  /\ ~isLoading
  /\ error # NoError
  /\ nRetry < MaxRetries
  /\ nRetry' = nRetry + 1
  /\ SetInterval(interval)
  /\ UNCHANGED <<bridgeType, data, feed, result>>
  /\ UNCHANGED cacheVars

\* onValueChange of the bridge tracker's Select: setBridgeType(v); the effect
\* depends on `bridgeType` too.
SelectBridgeType(v) ==
  /\ src = "bridge"
  /\ v # bridgeType
  /\ nFetch < MaxFetches
  /\ bridgeType' = v
  /\ isLoading' = TRUE
  /\ error' = NoError
  /\ nFetch' = nFetch + 1
  /\ inflight' = inflight \cup {FetchData(nFetch + 1, interval, v)}
  /\ UNCHANGED <<interval, data, feed, result, nRetry>>
  /\ UNCHANGED cacheVars

\* A suspended fetchData gets its response, ok and well-formed:
\* setData(result[interval]) with the closure's interval, setIsLoading(false).
FetchDataResolves(f) ==
  /\ data' = RecordsFor(f, "response")
  /\ isLoading' = FALSE
  /\ inflight' = inflight \ {f}
  /\ UNCHANGED <<interval, bridgeType, error, nFetch, nRetry, feed, result>>
  /\ UNCHANGED cacheVars

\* A suspended fetchData throws (the fetch rejects, or the response is not
\* ok): setError(...), in the inflow tracker also
\* setData(generateMockData()[interval]); setIsLoading(false).
FetchDataThrows(f) ==
  /\ error' = "Failed to load data"
  /\ data' = IF src = "inflow" THEN RecordsFor(f, "clientMock") ELSE data
  /\ isLoading' = FALSE
  /\ inflight' = inflight \ {f}
  /\ UNCHANGED <<interval, bridgeType, nFetch, nRetry, feed, result>>
  /\ UNCHANGED cacheVars

NextTracker ==
  \/ \E v \in RangeSet : SelectInterval(v)
  \/ \E v \in BridgeTypes : SelectBridgeType(v)
  \/ Retry
  \/ \E f \in inflight : FetchDataResolves(f)
  \/ \E f \in inflight : FetchDataThrows(f)

TrackerSpec == InitTracker /\ [][NextTracker]_vars

----------------------------------------------------------------------------
(* Steps and states the properties speak of. *)

\* This step is a GET resuming after its producer failed.
FailedResume ==
  \E g \in awaiting : g \notin awaiting' /\ lastGet'.n = g.n /\ lastGet'.up = "fail"

\* This step is a GET entering the handler and missing the cache.
MissBegins == Len(invs') > Len(invs)

\* This step is a GET served from the cache.
HitReturns == lastGet' # lastGet /\ lastGet'.n = 0

\* The body is the windowed result itself: no error field, the four windows.
WellFormed(resp) == ~resp.hasError /\ resp.payload # Null

\* The last GET ran the producer, stored its real result and returned it.
RealServed ==
  /\ lastGet.n # 0
  /\ lastGet.up = "ok"
  /\ invs[lastGet.n].status = "stored"
  /\ lastGet.resp = JsonOk(RealData(lastGet.n))

----------------------------------------------------------------------------
(* C1: when a cache entry exists and a refresh's producer fails, the stored *)
(* result and the stored timestamp are after the request what they were     *)
(* before it.                                                               *)
C1_FailedRefreshKeepsEntry ==
  [][FailedResume /\ cachedData # Null
       => cachedData' = cachedData /\ lastFetchTime' = lastFetchTime]_vars

(* C2: while no producer call has succeeded, every GET that has returned    *)
(* returned a well-formed windowed result, never an error-only response.    *)
C2_FallbackAlwaysWellFormed ==
  (lastGet # NoGet /\ \A i \in InvIds : invs[i].up # "ok")
    => WellFormed(lastGet.resp)

(* C3: a GET that starts after a refresh stored its result, at most the     *)
(* freshness duration after that refresh's time, runs no producer and       *)
(* returns the result that refresh stored.  The refresh is the one that     *)
(* completed last (stampedBy), its time the one it stored.                  *)
C3_FreshEntryServedWithoutRefresh ==
  [][((MissBegins \/ HitReturns)
        /\ stampedBy # 0
        /\ clock - invs[stampedBy].start <= CACHE_DURATION(src))
       => ~MissBegins /\ lastGet'.resp = JsonOk(invs[stampedBy].data)]_vars

(* C4, as claimed: once an entry has expired the requests that follow run   *)
(* the producer once in all; no run begins within the freshness duration of *)
(* an earlier run that is pending or has stored its result.                 *)
C4_ExactlyOneRefresh ==
  [][MissBegins
       => \A i \in InvIds :
            invs[i].status # "threw"
              => clock - invs[i].start > CACHE_DURATION(src)]_vars

(* C4, amended: no producer run begins within the freshness duration of a   *)
(* refresh that overlapped no other run and stored its result.              *)
C4_OneRefreshUnlessOverlapping ==
  [][MissBegins
       => \A i \in Stored :
            ~invs[i].overlapped
              => clock - invs[i].start > CACHE_DURATION(src)]_vars

\* A refresh ran alone and stored its result; once that entry had expired a
\* second one ran alone and stored its own; the GET after it was a hit.
C4_Witness ==
  /\ Len(invs) = 2
  /\ \A i \in InvIds : invs[i].status = "stored" /\ ~invs[i].overlapped
  /\ invs[2].start - invs[1].start > CACHE_DURATION(src)
  /\ lastGet.n = 0
  /\ lastGet.resp = JsonOk(invs[2].data)

(* C5: the stored result and the stored timestamp were written together,    *)
(* by the same refresh.                                                     *)
C5_ResultAndStampFromSameRefresh ==
  IF cachedData = Null
  THEN lastFetchTime = 0 /\ stampedBy = 0
  ELSE cachedData.id = stampedBy /\ lastFetchTime = invs[stampedBy].start

(* C6: when a refresh fails while an entry is stored, the request that      *)
(* triggered it gets a success response whose body is that entry.           *)
C6_FailedRefreshServesStale ==
  [][FailedResume /\ cachedData # Null => lastGet'.resp = JsonOk(cachedData)]_vars

(* C7: a response whose body holds synthetic fallback data carries an error *)
(* field.                                                                   *)
C7_SyntheticDataIsMarked ==
  lastGet.resp.payload.kind = "mock" => lastGet.resp.hasError

(* C8: a failed refresh never wedges the cache.  Once the upstream calls    *)
(* succeed, and while the model's budget leaves room for the entry to       *)
(* expire and for one more producer run, a request eventually stores and    *)
(* returns the producer's real result.                                      *)
RoomToRecover == Len(invs) < MaxInvocations /\ nBig + 2 <= MaxBigTicks

C8_FailedRefreshNeverWedges ==
  [](lastGet.up = "fail" /\ upstream = "healthy" /\ RoomToRecover
       => <>RealServed)

\* A refresh failed, then the upstream recovered, and a later refresh stored
\* and returned its real result.
C8_Witness ==
  /\ RealServed
  /\ upstream = "healthy"
  /\ \E i \in InvIds : invs[i].up = "fail"

----------------------------------------------------------------------------
(* C9: every inflow record that reaches the rendering layer satisfies       *)
(* totalInflow = exchangeAmount + solBridgeAmount + ethBridgeAmount.        *)
C9_TotalInflowIsSumOfParts ==
  \A k \in 1..Len(data) :
    data[k].totalInflow
      = data[k].exchangeAmount + data[k].solBridgeAmount + data[k].ethBridgeAmount

\* Bucket i of a window, 0-indexed from the most recent, spans
\* [now - (i + 1) * 15 min, now - i * 15 min).
BucketStart(now, i) == now - (i + 1) * IntervalMs
BucketEnd(now, i) == now - i * IntervalMs

\* The sum of the amounts of the transfers of ts whose time lies in bucket i.
BucketSum(ts, now, i) ==
  LET Test(t) == BucketStart(now, i) <= TransferTime(t) /\ TransferTime(t) < BucketEnd(now, i)
  IN  SumAmounts(SelectSeq(ts, Test))

(* C10: for every window and every bucket of it, the aggregation counts     *)
(* every transfer whose timestamp t satisfies bucket.start <= t < bucket.end*)
(* (the oldest bucket's start included).                                    *)
C10_BucketCountsHalfOpenInterval ==
  /\ (result.kind = "inflow" /\ result.origin = "real") =>
       \A r \in RangeSet : \A k \in 1..Len(result.windows[r]) :
         LET now == roundToNearestHour(feed.dates["1h"])
             ts == fetchBridgeData(feed.transfers)
             rec == result.windows[r][k]
         IN  /\ rec.solBridgeAmount = BucketSum(FromChain(ts, Solana), now, k - 1)
             /\ rec.ethBridgeAmount = BucketSum(FromChain(ts, Ethereum), now, k - 1)
  /\ result.kind = "bridge" =>
       \A r \in RangeSet : \A k \in 1..Len(result.routes.solAvax[r]) :
         LET now == roundToNearestHour(feed.dates[r])
             ts == fetchDefiLlamaBridgeData(feed.transfers)
         IN  /\ result.routes.solAvax[r][k].amount = BucketSum(ts.solAvax, now, k - 1)
             /\ result.routes.ethAvax[r][k].amount = BucketSum(ts.ethAvax, now, k - 1)

----------------------------------------------------------------------------
\* The transfers a real run buckets for window r, each with the reference
\* instant of that window: the Avalanche-bound ones for the inflow route
\* (one `now` for all windows), those of the two routes for the bridge route
\* (a `now` per window).
BucketedTransfers(r) ==
  IF result.kind = "inflow"
  THEN LET ts == fetchBridgeData(feed.transfers)
       IN  {[t |-> ts[j], now |-> roundToNearestHour(feed.dates["1h"])] : j \in 1..Len(ts)}
  ELSE LET b == fetchDefiLlamaBridgeData(feed.transfers)
       IN  {[t |-> b.solAvax[j], now |-> roundToNearestHour(feed.dates[r])]
              : j \in 1..Len(b.solAvax)}
           \cup {[t |-> b.ethAvax[j], now |-> roundToNearestHour(feed.dates[r])]
                   : j \in 1..Len(b.ethAvax)}

RealAggregation ==
  result.kind \in {"inflow", "bridge"} /\ result.origin = "real"

\* The window r spans, for reference instant now: from the oldest bucket's
\* start to the most recent bucket's end.
InWindow(t, now, r) ==
  now - timeRanges[r] <= TransferTime(t) /\ TransferTime(t) < now

\* Bucket i's start is bucket i+1's end, for the buckets of every window.
BucketsContiguous ==
  \A r \in RangeSet :
    LET B == Buckets(roundToNearestHour(feed.dates[r]), timeRanges[r])
    IN  \A k \in 1..(Len(B) - 1) : B[k].intervalStart = B[k + 1].intervalTime

\* No transfer is counted by two buckets of one window.
NoTransferCountedTwice ==
  \A r \in RangeSet : \A x \in BucketedTransfers(r) :
    Cardinality(CountingIntervals(x.t, x.now, timeRanges[r])) <= 1

(* C11: within one window the buckets are contiguous and do not overlap,    *)
(* and every transfer is counted in exactly one bucket of the window when   *)
(* it lies in the window and in none when it lies outside; never in two.    *)
C11_BucketsPartitionWindow ==
  RealAggregation =>
    /\ BucketsContiguous
    /\ NoTransferCountedTwice
    /\ \A r \in RangeSet : \A x \in BucketedTransfers(r) :
         Cardinality(CountingIntervals(x.t, x.now, timeRanges[r]))
           = IF InWindow(x.t, x.now, r) THEN 1 ELSE 0

\* The part of C11 that does not depend on the window's oldest instant.
C11_Part_ContiguousAndAtMostOnce ==
  RealAggregation => BucketsContiguous /\ NoTransferCountedTwice

----------------------------------------------------------------------------
\* The record sequences of a result, one per window (and per route for the
\* bridge), each with its window.
RecordSequences(res) ==
  CASE res.kind = "bridge" ->
         {[window |-> r, records |-> res.routes.solAvax[r]] : r \in RangeSet}
           \cup {[window |-> r, records |-> res.routes.ethAvax[r]] : r \in RangeSet}
    [] res.kind \in {"inflow", "swap"} ->
         {[window |-> r, records |-> res.windows[r]] : r \in RangeSet}
    [] OTHER -> {}

(* C12: for every data source and every result an endpoint returns, real or *)
(* fallback, a window holds windowDuration / 15 min records: 4 for 1h, 24   *)
(* for 6h, 48 for 12h and 96 for 24h.                                       *)
C12_WindowRecordCounts ==
  \A q \in RecordSequences(result) :
    /\ Len(q.records) = timeRanges[q.window] \div IntervalMs
    /\ Len(q.records) = CASE q.window = "1h" -> 4 [] q.window = "6h" -> 24
                          [] q.window = "12h" -> 48 [] q.window = "24h" -> 96

\* C12 for the inflow and the bridge endpoints alone.
C12_Part_InflowAndBridge ==
  result.kind \in {"inflow", "bridge"} => C12_WindowRecordCounts

----------------------------------------------------------------------------
\* The reference instant a real run uses for window r.
ReferenceInstant(r) ==
  IF result.kind = "inflow" THEN roundToNearestHour(feed.dates["1h"])
                            ELSE roundToNearestHour(feed.dates[r])

(* C13: every aggregate record's `time` is the start of the bucket whose    *)
(* transfers it sums: the record summing [s, s + 15 min) carries time = s.  *)
C13_RecordTimeIsBucketStart ==
  RealAggregation =>
    \A q \in RecordSequences(result) :
      LET B == Buckets(ReferenceInstant(q.window), timeRanges[q.window])
      IN  \A k \in 1..Len(q.records) :
            q.records[k].time = toISOString(B[k].intervalStart)

\* What the records carry instead: the end of the bucket they sum.
C13_Observed_RecordTimeIsBucketEnd ==
  RealAggregation =>
    \A q \in RecordSequences(result) :
      LET B == Buckets(ReferenceInstant(q.window), timeRanges[q.window])
      IN  \A k \in 1..Len(q.records) :
            q.records[k].time = toISOString(B[k].intervalTime)

----------------------------------------------------------------------------
\* The sum of the amounts of the transfers of the feed that go from chain
\* `from` to Avalanche and whose time lies in the bucket b.
CategorySum(from, b) ==
  LET Test(t) == /\ t.fromChain = from
                 /\ t.toChain = Avalanche
                 /\ b.intervalStart <= TransferTime(t)
                 /\ TransferTime(t) < b.intervalTime
  IN  SumAmounts(SelectSeq(feed.transfers, Test))

(* C14: for every bucket and every category (Solana bridge amount, Ethereum *)
(* bridge amount, bridge amount per route) the record's value is the sum of *)
(* the amounts of exactly the transfers of the category that fall in the    *)
(* bucket, 0 when there is none.                                            *)
C14_CategorySums ==
  RealAggregation =>
    \A r \in RangeSet :
      LET B == Buckets(ReferenceInstant(r), timeRanges[r])
      IN  \A k \in 1..Len(B) :
            IF result.kind = "inflow"
            THEN /\ result.windows[r][k].solBridgeAmount = CategorySum(Solana, B[k])
                 /\ result.windows[r][k].ethBridgeAmount = CategorySum(Ethereum, B[k])
            ELSE /\ result.routes.solAvax[r][k].amount = CategorySum(Solana, B[k])
                 /\ result.routes.ethAvax[r][k].amount = CategorySum(Ethereum, B[k])

\* The example of C14: reference instant on the hour (01:00), a Solana
\* transfer of 10 fifty-five minutes before it (00:05) and an Ethereum
\* transfer of 5 forty minutes before it (00:20).
C14_ExampleFeed ==
  /\ feed.transfers = <<Transfer(HourSec - 3300, Solana, Avalanche, "10"),
                        Transfer(HourSec - 2400, Ethereum, Avalanche, "5")>>
  /\ roundToNearestHour(feed.dates["1h"]) = HourSec * 1000

\* The 00:00-00:15 bucket has sol 10 / eth 0, the 00:15-00:30 bucket sol 0 /
\* eth 5.
C14_Part_Example ==
  (result.kind = "inflow" /\ result.origin = "real" /\ C14_ExampleFeed) =>
    /\ result.windows["1h"][4].solBridgeAmount = 10
    /\ result.windows["1h"][4].ethBridgeAmount = 0
    /\ result.windows["1h"][3].solBridgeAmount = 0
    /\ result.windows["1h"][3].ethBridgeAmount = 5

----------------------------------------------------------------------------
\* The instant the records of a window of the result are laid out from: the
\* top of the hour of the run's clock reading (the inflow producer reads the
\* clock once, the others once per window), for the swap data the reading
\* itself.
LayoutInstant(res, r) ==
  CASE res.kind = "swap" -> feed.dates[r]
    [] res.kind = "inflow" /\ res.origin = "real" -> roundToNearestHour(feed.dates["1h"])
    [] OTHER -> roundToNearestHour(feed.dates[r])

(* C15: every record sequence an endpoint returns, real or fallback, runs   *)
(* from the most recent record to the oldest, record i carrying the         *)
(* reference instant minus i * 15 minutes: times decrease by 15 minutes     *)
(* along the sequence and none lies after the reference instant.            *)
C15_RecordsNewestFirstQuarterHourApart ==
  \A q \in RecordSequences(result) :
    \A k \in 1..Len(q.records) :
      q.records[k].time
        = toISOString(LayoutInstant(result, q.window) - (k - 1) * IntervalMs)

\* C15 for the inflow endpoint and for the bridge endpoint's real result.
C15_Part_InflowAndRealBridge ==
  (result.kind = "inflow" \/ (result.kind = "bridge" /\ result.origin = "real"))
    => C15_RecordsNewestFirstQuarterHourApart

\* C15 for the bridge endpoint's fallback result alone.
C15_Part_BridgeFallback ==
  (result.kind = "bridge" /\ result.origin = "mock")
    => C15_RecordsNewestFirstQuarterHourApart

\* C15 for the swap endpoint alone.
C15_Part_Swap ==
  result.kind = "swap" => C15_RecordsNewestFirstQuarterHourApart

----------------------------------------------------------------------------
\* Two clock readings lie in the same hour of the clock.
SameHour(a, b) == a \div 3600000 = b \div 3600000

\* The clock readings of the run.
Readings == {feed.dates[r] : r \in RangeSet}

(* C16: bucket boundaries depend only on the hour of the clock reading: for *)
(* two readings in the same hour roundToNearestHour returns the same        *)
(* instant, at or before either reading (the top of the hour, never the     *)
(* next one), and the buckets built from it for a window are identical; so  *)
(* are the times of the records the bridge producer built from the two.     *)
C16_SameHourSameBuckets ==
  /\ \A a \in Readings :
       /\ roundToNearestHour(a) <= a
       /\ SameHour(roundToNearestHour(a), a)
  /\ \A a, b \in Readings :
       (a # b /\ SameHour(a, b)) =>
         /\ roundToNearestHour(a) = roundToNearestHour(b)
         /\ \A w \in RangeSet :
              Buckets(roundToNearestHour(a), timeRanges[w])
                = Buckets(roundToNearestHour(b), timeRanges[w])
  /\ (result.kind = "bridge" /\ result.origin = "real") =>
       \A r1, r2 \in RangeSet :
         SameHour(feed.dates[r1], feed.dates[r2]) =>
           \A k \in 1..Len(result.routes.solAvax["1h"]) :
             result.routes.solAvax[r1][k].time = result.routes.solAvax[r2][k].time

\* The bridge producer has built its windows from two different readings of
\* one hour.
C16_Witness ==
  /\ result.kind = "bridge"
  /\ result.origin = "real"
  /\ feed.dates["1h"] # feed.dates["6h"]
  /\ SameHour(feed.dates["1h"], feed.dates["6h"])
  /\ result.routes.solAvax["1h"][1].time = result.routes.solAvax["6h"][1].time

----------------------------------------------------------------------------
\* This step selects another window in the tracker.
WindowSelected == interval' # interval

(* C17: selecting a different window in a tracker component sends no new    *)
(* GET to the endpoint: no request is counted and none is put in flight.    *)
C17_WindowSelectionSendsNoGet ==
  [][WindowSelected => nFetch' = nFetch /\ inflight' = inflight]_vars

\* What the components do instead: every selection of a window sends one GET.
C17_Observed_SelectionSendsOneGet ==
  [][WindowSelected => nFetch' = nFetch + 1]_vars

(* C18: in the inflow endpoint, whenever now - lastFetchTime is at most 15  *)
(* minutes, the stored entry is the output of a successful producer run: a  *)
(* stored real result is not replaced by synthetic data while it is fresh.  *)
C18_FreshInflowEntryIsReal ==
  (src = "inflow" /\ cachedData # Null /\ clock - lastFetchTime <= CACHE_DURATION(src))
    => cachedData.kind = "real"

\* Of the producer runs S, one that started latest.
LatestStarted(S) == CHOOSE i \in S : \A j \in S : invs[j].start <= invs[i].start

(* C19: the stored last-fetch timestamp never decreases, whatever the order *)
(* in which overlapping refreshes complete, and the stored result is that   *)
(* of the refresh that started latest among those completed.                *)
C19_LastFetchTimeNeverDecreases ==
  [][/\ lastFetchTime' >= lastFetchTime
     /\ (Stored' # {} /\ stampedBy' # stampedBy) =>
          invs'[stampedBy'].start = invs'[LatestStarted(Stored)'].start]_vars

(* C20: in a tracker component, whenever no fetch is in flight and the      *)
(* component is not in the error state, the displayed records are those of  *)
(* the selected window (and, in the bridge tracker, of the selected bridge  *)
(* type).                                                                   *)
C20_DisplayedDataIsOfSelection ==
  (inflight = {} /\ error = NoError) =>
    /\ data # << >>
    /\ data[1].window = interval
    /\ src = "bridge" => data[1].route = bridgeType

----------------------------------------------------------------------------
\* The four windows of the run were laid out from one reference instant.
OneReferenceInstant ==
  \A r \in RangeSet :
    roundToNearestHour(feed.dates[r]) = roundToNearestHour(feed.dates["1h"])

\* Record k of window r1 and record k of window r2 of a route's windows
\* report the same amount and usdValue.
SameSums(w, r1, r2, k) ==
  /\ w[r1][k].amount = w[r2][k].amount
  /\ w[r1][k].usdValue = w[r2][k].usdValue

\* Every record of a window equals the record at the same place of every
\* longer window, for both routes.
WindowsAgree ==
  \A r1, r2 \in RangeSet :
    timeRanges[r1] < timeRanges[r2] =>
      \A k \in 1..Len(result.routes.solAvax[r1]) :
        /\ SameSums(result.routes.solAvax, r1, r2, k)
        /\ SameSums(result.routes.ethAvax, r1, r2, k)

(* C21: for a fixed reference instant and a fixed transfer set,             *)
(* processTransfers gives a bucket the same amount and usdValue in every    *)
(* window that contains it: record i of the 1h window equals record i of    *)
(* the 6h, 12h and 24h windows (i < 4), record i of 6h that of 12h and 24h  *)
(* (i < 24), record i of 12h that of 24h (i < 48).                          *)
C21_BucketSameInEveryWindow ==
  (result.kind = "bridge" /\ result.origin = "real" /\ OneReferenceInstant)
    => WindowsAgree

\* A transfer of the feed sits exactly at the start of one of the windows.
TransferAtWindowStart ==
  \E j \in 1..Len(feed.transfers) : \E r \in RangeSet :
    TransferTime(feed.transfers[j])
      = roundToNearestHour(feed.dates[r]) - timeRanges[r]

\* C21 for the runs none of whose transfers sits at the start of a window.
C21_Part_OffWindowStart ==
  (result.kind = "bridge" /\ result.origin = "real" /\ OneReferenceInstant
     /\ ~TransferAtWindowStart)
    => WindowsAgree

----------------------------------------------------------------------------
\* This step is a press of the Retry button.
RetryPressed == nRetry' = nRetry + 1

(* C22: in the inflow tracker, pressing the Retry button shown in the error *)
(* state starts a new fetch of /api/avax-inflow-data and the component      *)
(* enters the loading state again, also when the selected window is         *)
(* unchanged.                                                               *)
C22_RetryStartsNewFetch ==
  [][RetryPressed => nFetch' = nFetch + 1 /\ inflight' # inflight /\ isLoading']_vars

\* What the press does: nothing. No GET, no loading state, the error stays.
C22_Observed_RetryChangesNothing ==
  [][RetryPressed =>
       UNCHANGED <<interval, isLoading, error, inflight, nFetch, data>>]_vars

====
